---------------------------- MODULE Spec2Model ----------------------------
(* A model of ocflib's lab hours (ocflib/lab/hours.py) and printing quota  *)
(* (ocflib/printing/quota.py).                                             *)
(*                                                                         *)
(* Dates are day numbers, date 0 being a Monday, so date.weekday() is      *)
(* d % 7.  A time of day is a tick in 0 .. DayLen-1.  A datetime is a      *)
(* record [date, time]; a timedelta is a number of ticks.  Python's None   *)
(* is NoneDT for a datetime argument, NoDay for a date argument and        *)
(* NoHours for an Hours value.  A call's outcome is a record whose kind is *)
(* "ok" or the name of the exception raised.                               *)
EXTENDS Integers, Sequences, FiniteSets

VARIABLES
    raw_hours,      \* the parsed hours.yaml: [hours, holidays]
    self,           \* the Hours value the instance methods are called on
    op,             \* the method called last
    arg_when,       \* its `when` argument (NoneDT when omitted); get_hours: its day
    now,            \* what datetime.now() read during that call
    when,           \* time_to_open's local `when`, after _validate_time
    date,           \* time_to_open's local `date`
    opens,          \* time_to_open's local `opens`
    pc,             \* "idle", "loop" (inside time_to_open) or "done"
    result,         \* what the call returned or raised
    printed,        \* the `printed` rows, by user
    jobs,           \* the `jobs` rows, in insertion order
    refunds,        \* the `refunds` rows, in insertion order
    job_calls,      \* history: the records passed to add_job
    refund_calls,   \* history: the records passed to add_refund
    quota           \* what the last get_quota returned

quotaVars == <<printed, jobs, refunds, job_calls, refund_calls, quota>>
vars == <<raw_hours, self, op, arg_when, now, when, date, opens, pc, result,
          printed, jobs, refunds, job_calls, refund_calls, quota>>

---------------------------------------------------------------------------
(* Bounds *)

\* ticks in a day
DayLen == 4
\* the last date the model looks at
MaxDate == 9
\* the lookahead the specification asks of time_to_open, in days
Horizon == 7

Times == 0 .. (DayLen - 1)
Dates == 0 .. MaxDate
\* the dates explicit `when` arguments and the clock are drawn from
CallDates == {0, 1}
\* the most rows the jobs and the refunds tables take
MaxRows == 2

---------------------------------------------------------------------------
(* Days, datetimes, outcomes *)

DayNames == <<"Monday", "Tuesday", "Wednesday", "Thursday", "Friday",
              "Saturday", "Sunday">>

\* Days[name]: the enum member's value
Days(name) == (CHOOSE i \in 1 .. 7 : DayNames[i] = name) - 1

\* date.weekday()
weekday(d) == d % 7

NoneDT == [date |-> -1, time |-> -1]
NoDay == -1
NoHours == [date |-> -1, weekday |-> "None", holiday |-> "None", hours |-> <<>>]

\* datetime.combine(date, time)
combine(d, t) == [date |-> d, time |-> t]

\* datetime - datetime, in ticks
minus(a, b) == (a.date - b.date) * DayLen + (a.time - b.time)

\* datetime > datetime
later(a, b) == a.date > b.date \/ (a.date = b.date /\ a.time > b.time)

Returned(b, dur, w) == [kind |-> "ok", bool |-> b, dur |-> dur, when |-> w]
Raised(e) == [kind |-> e, bool |-> FALSE, dur |-> 0, when |-> NoneDT]
NoResult == [kind |-> "none", bool |-> FALSE, dur |-> 0, when |-> NoneDT]

---------------------------------------------------------------------------
(* hours.yaml *)

Hour(open, close) == [open |-> open, close |-> close]

\* the interval lists a day of the file may carry, as split "open-close" pairs
RawHourLists == { <<>>, << <<1, 3>> >>, << <<0, 1>>, <<2, 3>> >> }

\* the sets of weekdays a file may leave out
MissingDays == { {}, {"Wednesday"} }

Weekend == {"Saturday", "Sunday"}

RawTemplate(wl, missing) ==
    [n \in {DayNames[i] : i \in 1 .. 7} \ missing |->
        IF n \in Weekend THEN <<>> ELSE wl]

Break == [start |-> 1, end |-> 2, reason |-> "Break", hours |-> <<>>]
Short == [start |-> 2, end |-> 3, reason |-> "Short", hours |-> << <<0, 2>> >>]

RawHolidayLists == { <<>>, <<Break>>, <<Short>>, <<Break, Short>>, <<Short, Break>> }

RawFiles ==
    { [hours |-> RawTemplate(wl, m), holidays |-> hl] :
        wl \in RawHourLists, m \in MissingDays, hl \in RawHolidayLists }

\* the inner loops of _generate_regular_hours: one Hour per "open-close" string
parse_hours(raw) == [i \in 1 .. Len(raw) |-> Hour(raw[i][1], raw[i][2])]

\* _generate_regular_hours(): (regular_hours, holidays)
_generate_regular_hours(raw) ==
    [regular_hours |->
        [d \in {Days(n) : n \in DOMAIN raw.hours} |->
            parse_hours(raw.hours[DayNames[d + 1]])],
     holidays |->
        [i \in 1 .. Len(raw.holidays) |->
            [start |-> raw.holidays[i].start,
             end |-> raw.holidays[i].end,
             name |-> raw.holidays[i].reason,
             hours |-> parse_hours(raw.holidays[i].hours)]]]

---------------------------------------------------------------------------
(* Hour and Hours *)

\* Hour.__contains__ for a datetime: its time of day, half-open
Hour__contains__(hour, w) == hour.open <= w.time /\ w.time < hour.close

\* a faulty variant: the loop without its break, the last holiday holding day winning
last_holiday(holidays, day) ==
    IF \E i \in 1 .. Len(holidays) : holidays[i].start <= day /\ day <= holidays[i].end
    THEN CHOOSE i \in 1 .. Len(holidays) :
            /\ holidays[i].start <= day /\ day <= holidays[i].end
            /\ \A j \in (i + 1) .. Len(holidays) :
                ~(holidays[j].start <= day /\ day <= holidays[j].end)
    ELSE 0

\* the holiday loop of get_hours: the index of the first holiday holding day, or 0
first_holiday(holidays, day) ==
    IF \E i \in 1 .. Len(holidays) : holidays[i].start <= day /\ day <= holidays[i].end
    THEN CHOOSE i \in 1 .. Len(holidays) :
            /\ holidays[i].start <= day /\ day <= holidays[i].end
            /\ \A j \in 1 .. (i - 1) :
                ~(holidays[j].start <= day /\ day <= holidays[j].end)
    ELSE 0

\* a faulty variant: the weekday looked up only when no holiday holds the day
get_hours_holiday_first(raw, day, today) ==
    LET d == IF day = NoDay THEN today ELSE day
        cfg == _generate_regular_hours(raw)
        k == first_holiday(cfg.holidays, d)
    IN  IF k = 0 /\ weekday(d) \notin DOMAIN cfg.regular_hours
        THEN [kind |-> "KeyError", hours |-> NoHours]
        ELSE [kind |-> "ok",
              hours |-> [date |-> d,
                         weekday |-> DayNames[weekday(d) + 1],
                         holiday |-> IF k = 0 THEN "None" ELSE cfg.holidays[k].name,
                         hours |-> IF k = 0 THEN cfg.regular_hours[weekday(d)]
                                   ELSE cfg.holidays[k].hours]]

\* Hours.get_hours(day): [kind, hours], kind "KeyError" when the weekday lookup fails
get_hours(raw, day, today) ==
    LET d == IF day = NoDay THEN today ELSE day
        cfg == _generate_regular_hours(raw)
        k == first_holiday(cfg.holidays, d)
    IN  IF weekday(d) \notin DOMAIN cfg.regular_hours
        THEN [kind |-> "KeyError", hours |-> NoHours]
        ELSE [kind |-> "ok",
              hours |-> [date |-> d,
                         weekday |-> DayNames[weekday(d) + 1],
                         holiday |-> IF k = 0 THEN "None" ELSE cfg.holidays[k].name,
                         hours |-> IF k = 0 THEN cfg.regular_hours[weekday(d)]
                                   ELSE cfg.holidays[k].hours]]

\* Hours.closed_all_day
closed_all_day(h) == h.hours = <<>>

\* Hours._validate_time, `when` being None or a datetime: the datetime handed
\* back (NoneDT when the function falls off its end), or the exception
_validate_time(h, w, clock) ==
    IF w = NoneDT THEN Returned(FALSE, 0, clock)
    ELSE IF ~(h.date # w.date) THEN Raised("ValueError")
    ELSE Returned(FALSE, 0, NoneDT)

\* any(when in hour for hour in hours), when being None or a datetime
any_contains(hours, w) ==
    IF hours = <<>> THEN Returned(FALSE, 0, w)
    ELSE IF w = NoneDT THEN Raised("TypeError")
    ELSE Returned(\E i \in 1 .. Len(hours) : Hour__contains__(hours[i], w), 0, w)

\* Hours.lab_is_open
lab_is_open(h, w, clock) ==
    LET v == _validate_time(h, w, clock)
    IN  IF v.kind # "ok" THEN v ELSE any_contains(h.hours, v.when)

\* [hour for hour in self.hours if when in hour]
hours_containing(hours, w) ==
    SelectSeq(hours, LAMBDA hour : Hour__contains__(hour, w))

\* Hours.time_to_close
time_to_close(h, w, clock) ==
    LET v == _validate_time(h, w, clock)
    IN  IF v.kind # "ok" THEN v
        ELSE IF h.hours = <<>> THEN Returned(FALSE, 0, v.when)
        ELSE IF v.when = NoneDT THEN Raised("TypeError")
        ELSE LET hs == hours_containing(h.hours, v.when)
             IN  IF hs = <<>> THEN Returned(FALSE, 0, v.when)
                 ELSE Returned(FALSE, minus(combine(h.date, hs[1].close), v.when), v.when)

\* date_opens(date) inside time_to_open
date_opens(raw, d) ==
    LET g == get_hours(raw, d, d)
    IN  IF g.kind # "ok" THEN [kind |-> g.kind, opens |-> <<>>]
        ELSE [kind |-> "ok",
              opens |-> [i \in 1 .. Len(g.hours.hours) |->
                            combine(d, g.hours.hours[i].open)]]

\* [o for o in opens if o > when]
opens_after(os, w) == SelectSeq(os, LAMBDA o : later(o, w))

NoQuota == [user |-> "None", daily |-> 0, semesterly |-> 0]

---------------------------------------------------------------------------
(* quota.py *)

WEEKDAY_QUOTA == 8
WEEKEND_QUOTA == 16
SEMESTERLY_QUOTA == 100
PUBSTAFF_QUOTA == 500

max(a, b) == IF a >= b THEN a ELSE b
min(a, b) == IF a <= b THEN a ELSE b

UserQuota(user, daily, semesterly) ==
    [user |-> user, daily |-> daily, semesterly |-> semesterly]

Job_fields == <<"user", "time", "pages", "queue", "printer", "doc_name", "filesize">>
Refund_fields == <<"user", "time", "pages", "staffer", "reason">>

\* daily_quota(day)
daily_quota(day) ==
    IF weekday(day) \in {5, 6} THEN WEEKEND_QUOTA ELSE WEEKDAY_QUOTA

\* c.execute(SELECT ...); c.fetchone(): the user's row of `printed`, if any
fetchone(rows, user) ==
    IF user \in DOMAIN rows
    THEN [found |-> TRUE, today |-> rows[user].today, semester |-> rows[user].semester]
    ELSE [found |-> FALSE, today |-> 0, semester |-> 0]

\* a faulty variant: the daily allowance not held to the semesterly one
get_quota_unclamped(rows, user, today) ==
    IF user = "pubstaff" THEN UserQuota("pubstaff", PUBSTAFF_QUOTA, PUBSTAFF_QUOTA)
    ELSE LET f == fetchone(rows, user)
             row == IF ~f.found THEN [today |-> 0, semester |-> 0]
                    ELSE [today |-> f.today, semester |-> f.semester]
             semesterly == max(0, SEMESTERLY_QUOTA - row.semester)
         IN  UserQuota(user, max(0, daily_quota(today) - row.today), semesterly)

\* get_quota(c, user), datetime.today() reading `today`
get_quota(rows, user, today) ==
    IF user = "pubstaff" THEN UserQuota("pubstaff", PUBSTAFF_QUOTA, PUBSTAFF_QUOTA)
    ELSE LET f == fetchone(rows, user)
             row == IF ~f.found THEN [today |-> 0, semester |-> 0]
                    ELSE [today |-> f.today, semester |-> f.semester]
             semesterly == max(0, SEMESTERLY_QUOTA - row.semester)
         IN  UserQuota(user,
                       max(0, min(semesterly, daily_quota(today) - row.today)),
                       semesterly)

\* _namedtuple_to_query(query, nt): the statement's table and column list, and the
\* tuple of values
_namedtuple_to_query(table, fields, nt) ==
    [table |-> table,
     columns |-> fields,
     args |-> [i \in 1 .. Len(fields) |-> nt[fields[i]]]]

\* what the storage makes of INSERT INTO t (columns) VALUES (args): one row
inserted_row(q) ==
    [c \in {q.columns[i] : i \in 1 .. Len(q.columns)} |->
        q.args[CHOOSE i \in 1 .. Len(q.columns) : q.columns[i] = c]]

\* c.execute(INSERT ...) on the two tables
execute_insert(tables, q) ==
    IF q.table = "jobs"
    THEN [jobs |-> Append(tables.jobs, inserted_row(q)), refunds |-> tables.refunds]
    ELSE [jobs |-> tables.jobs, refunds |-> Append(tables.refunds, inserted_row(q))]

\* add_job(c, job)
add_job(tables, job) ==
    execute_insert(tables, _namedtuple_to_query("jobs", Job_fields, job))

\* a faulty variant: the refund's statement naming the jobs table
add_refund_into_jobs(tables, refund) ==
    execute_insert(tables, _namedtuple_to_query("jobs", Refund_fields, refund))

\* add_refund(c, refund)
add_refund(tables, refund) ==
    execute_insert(tables, _namedtuple_to_query("refunds", Refund_fields, refund))

Users == {"pubstaff", "ckuehl"}
UsedToday == {-2, 3, 20}
UsedSemester == {0, 98, 130}
QuotaClocks == {combine(4, 0), combine(5, 0)}

JobInputs ==
    { [user |-> "ckuehl", time |-> 1, pages |-> 42, queue |-> "double",
       printer |-> "logjam", doc_name |-> "a.pdf", filesize |-> 7],
      [user |-> "pubstaff", time |-> 2, pages |-> 1, queue |-> "single",
       printer |-> "pagefault", doc_name |-> "b.pdf", filesize |-> 9] }

RefundInputs ==
    { [user |-> "ckuehl", time |-> 3, pages |-> 5, staffer |-> "staff",
       reason |-> "jam"],
      [user |-> "pubstaff", time |-> 4, pages |-> 1, staffer |-> "root",
       reason |-> "toner"] }

---------------------------------------------------------------------------
(* The calls *)

Whens == {NoneDT} \cup {combine(d, t) : d \in CallDates, t \in Times}
Clocks == {combine(d, t) : d \in CallDates, t \in Times}

\* self = Hours.get_hours(day)
GetHours(day, clock) ==
    /\ pc = "idle"
    /\ LET g == get_hours(raw_hours, day, clock.date)
       IN  /\ self' = IF g.kind = "ok" THEN g.hours ELSE self
           /\ result' = IF g.kind = "ok" THEN Returned(FALSE, 0, NoneDT) ELSE Raised(g.kind)
    /\ op' = "get_hours"
    /\ arg_when' = combine(day, 0)
    /\ now' = clock
    /\ pc' = "done"
    /\ when' = NoneDT
    /\ date' = NoDay
    /\ opens' = <<>>
    /\ UNCHANGED <<raw_hours>>
    /\ UNCHANGED quotaVars

\* self.lab_is_open(w)
LabIsOpen(w, clock) ==
    /\ pc = "idle"
    /\ self # NoHours
    /\ op' = "lab_is_open"
    /\ arg_when' = w
    /\ now' = clock
    /\ result' = lab_is_open(self, w, clock)
    /\ pc' = "done"
    /\ when' = NoneDT
    /\ date' = NoDay
    /\ opens' = <<>>
    /\ UNCHANGED <<raw_hours, self>>
    /\ UNCHANGED quotaVars

\* self.time_to_close(w)
TimeToClose(w, clock) ==
    /\ pc = "idle"
    /\ self # NoHours
    /\ op' = "time_to_close"
    /\ arg_when' = w
    /\ now' = clock
    /\ result' = time_to_close(self, w, clock)
    /\ pc' = "done"
    /\ when' = NoneDT
    /\ date' = NoDay
    /\ opens' = <<>>
    /\ UNCHANGED <<raw_hours, self>>
    /\ UNCHANGED quotaVars

\* self.time_to_open(w), up to the head of its while loop
time_to_open_entry(h, raw, w, clock) ==
    LET v == _validate_time(h, w, clock)
        o == IF v.kind = "ok" THEN lab_is_open(h, v.when, clock) ELSE v
        t == date_opens(raw, h.date)
    IN  IF v.kind # "ok" THEN [pc |-> "done", result |-> v, opens |-> <<>>]
        ELSE IF o.kind # "ok" THEN [pc |-> "done", result |-> o, opens |-> <<>>]
        ELSE IF o.bool THEN [pc |-> "done", result |-> Returned(FALSE, 0, v.when), opens |-> <<>>]
        ELSE IF t.kind # "ok" THEN [pc |-> "done", result |-> Raised(t.kind), opens |-> <<>>]
        ELSE IF t.opens # <<>> /\ v.when = NoneDT
             THEN [pc |-> "done", result |-> Raised("TypeError"), opens |-> <<>>]
        ELSE [pc |-> "loop", result |-> NoResult, opens |-> opens_after(t.opens, v.when)]

TimeToOpen(w, clock) ==
    /\ pc = "idle"
    /\ self # NoHours
    /\ op' = "time_to_open"
    /\ arg_when' = w
    /\ now' = clock
    /\ LET e == time_to_open_entry(self, raw_hours, w, clock)
       IN  /\ pc' = e.pc
           /\ result' = e.result
           /\ opens' = e.opens
    /\ when' = _validate_time(self, w, clock).when
    /\ date' = self.date
    /\ UNCHANGED <<raw_hours, self>>
    /\ UNCHANGED quotaVars

\* a faulty variant: the loop stepping two days at a time
time_to_open_step_by_two(raw, w, d, os) ==
    LET t == date_opens(raw, d + 2)
    IN  IF os # <<>>
        THEN [pc |-> "done", date |-> d, opens |-> os,
              result |-> IF w = NoneDT THEN Raised("TypeError")
                         ELSE Returned(FALSE, minus(os[1], w), w)]
        ELSE IF t.kind # "ok"
        THEN [pc |-> "done", date |-> d + 2, opens |-> os, result |-> Raised(t.kind)]
        ELSE [pc |-> "loop", date |-> d + 2, opens |-> t.opens, result |-> NoResult]

\* one test of `while not opens`: the body, or the return after the loop
time_to_open_step(raw, w, d, os) ==
    LET t == date_opens(raw, d + 1)
    IN  IF os # <<>>
        THEN [pc |-> "done", date |-> d, opens |-> os,
              result |-> IF w = NoneDT THEN Raised("TypeError")
                         ELSE Returned(FALSE, minus(os[1], w), w)]
        ELSE IF t.kind # "ok"
        THEN [pc |-> "done", date |-> d + 1, opens |-> os, result |-> Raised(t.kind)]
        ELSE [pc |-> "loop", date |-> d + 1, opens |-> t.opens, result |-> NoResult]

TimeToOpenStep ==
    /\ pc = "loop"
    /\ opens # <<>> \/ date < MaxDate
    /\ LET s == time_to_open_step(raw_hours, when, date, opens)
       IN  /\ pc' = s.pc
           /\ date' = s.date
           /\ opens' = s.opens
           /\ result' = s.result
    /\ UNCHANGED <<raw_hours, self, op, arg_when, now, when>>
    /\ UNCHANGED quotaVars

\* the caller takes the outcome; the next call may start
Return ==
    /\ pc = "done"
    /\ pc' = "idle"
    /\ op' = "none"
    /\ arg_when' = NoneDT
    /\ when' = NoneDT
    /\ date' = NoDay
    /\ opens' = <<>>
    /\ result' = NoResult
    /\ quota' = NoQuota
    /\ now' = combine(0, 0)
    /\ UNCHANGED <<raw_hours, self, printed, jobs, refunds, job_calls, refund_calls>>

HoursNext ==
    \/ \E day \in Dates \cup {NoDay}, clock \in Clocks : GetHours(day, clock)
    \/ \E w \in Whens, clock \in Clocks : LabIsOpen(w, clock)
    \/ \E w \in Whens, clock \in Clocks : TimeToClose(w, clock)
    \/ \E w \in Whens, clock \in Clocks : TimeToOpen(w, clock)
    \/ TimeToOpenStep
    \/ Return

InitHours ==
    /\ raw_hours \in RawFiles
    /\ self = NoHours
    /\ op = "none"
    /\ arg_when = NoneDT
    /\ now = combine(0, 0)
    /\ when = NoneDT
    /\ date = NoDay
    /\ opens = <<>>
    /\ pc = "idle"
    /\ result = NoResult
    /\ printed = <<>>
    /\ jobs = <<>>
    /\ refunds = <<>>
    /\ job_calls = <<>>
    /\ refund_calls = <<>>
    /\ quota = NoQuota

SpecHours == InitHours /\ [][HoursNext]_vars

\* get_quota(c, user)
GetQuota(user, clock) ==
    /\ pc = "idle"
    /\ op' = "get_quota"
    /\ now' = clock
    /\ quota' = get_quota(printed, user, clock.date)
    /\ pc' = "done"
    /\ UNCHANGED <<raw_hours, self, arg_when, when, date, opens, result>>
    /\ UNCHANGED <<printed, jobs, refunds, job_calls, refund_calls>>

\* add_job(c, job)
AddJob(job) ==
    /\ pc = "idle"
    /\ Len(jobs) < MaxRows
    /\ op' = "add_job"
    /\ LET t == add_job([jobs |-> jobs, refunds |-> refunds], job)
       IN  /\ jobs' = t.jobs
           /\ refunds' = t.refunds
    /\ job_calls' = Append(job_calls, job)
    /\ pc' = "done"
    /\ UNCHANGED <<raw_hours, self, arg_when, now, when, date, opens, result>>
    /\ UNCHANGED <<printed, refund_calls, quota>>

\* add_refund(c, refund)
AddRefund(refund) ==
    /\ pc = "idle"
    /\ Len(refunds) < MaxRows
    /\ op' = "add_refund"
    /\ LET t == add_refund([jobs |-> jobs, refunds |-> refunds], refund)
       IN  /\ jobs' = t.jobs
           /\ refunds' = t.refunds
    /\ refund_calls' = Append(refund_calls, refund)
    /\ pc' = "done"
    /\ UNCHANGED <<raw_hours, self, arg_when, now, when, date, opens, result>>
    /\ UNCHANGED <<printed, job_calls, quota>>

\* the storage's own upkeep of a user's `printed` counters, between calls
StorageUpdate(user, today, semester) ==
    /\ pc = "idle"
    /\ printed' = [u \in DOMAIN printed \cup {user} |->
                      IF u = user THEN [today |-> today, semester |-> semester]
                      ELSE printed[u]]
    /\ UNCHANGED <<raw_hours, self, op, arg_when, now, when, date, opens, pc, result>>
    /\ UNCHANGED <<jobs, refunds, job_calls, refund_calls, quota>>

QuotaNext ==
    \/ \E user \in Users, clock \in QuotaClocks : GetQuota(user, clock)
    \/ \E job \in JobInputs : AddJob(job)
    \/ \E refund \in RefundInputs : AddRefund(refund)
    \/ \E user \in Users, t \in UsedToday, s \in UsedSemester : StorageUpdate(user, t, s)
    \/ Return

InitQuota ==
    /\ raw_hours = [hours |-> RawTemplate(<<>>, {}), holidays |-> <<>>]
    /\ self = NoHours
    /\ op = "none"
    /\ arg_when = NoneDT
    /\ now = combine(0, 0)
    /\ when = NoneDT
    /\ date = NoDay
    /\ opens = <<>>
    /\ pc = "idle"
    /\ result = NoResult
    /\ printed = <<>>
    /\ jobs = <<>>
    /\ refunds = <<>>
    /\ job_calls = <<>>
    /\ refund_calls = <<>>
    /\ quota = NoQuota

SpecQuota == InitQuota /\ [][QuotaNext]_vars

---------------------------------------------------------------------------
(* What the schedule says, read off the file itself *)

AllDayNames == {DayNames[i] : i \in 1 .. 7}
Complete == DOMAIN raw_hours.hours = AllDayNames
DayName(d) == DayNames[(d % 7) + 1]

\* the holidays of the file whose inclusive range holds d
Covering(d) ==
    {i \in 1 .. Len(raw_hours.holidays) :
        raw_hours.holidays[i].start <= d /\ d <= raw_hours.holidays[i].end}
FirstCovering(d) == CHOOSE i \in Covering(d) : \A j \in Covering(d) : i <= j

ExpectedRaw(d) ==
    IF Covering(d) # {} THEN raw_hours.holidays[FirstCovering(d)].hours
    ELSE raw_hours.hours[DayName(d)]
ExpectedHours(d) ==
    [i \in 1 .. Len(ExpectedRaw(d)) |->
        [open |-> ExpectedRaw(d)[i][1], close |-> ExpectedRaw(d)[i][2]]]

\* the day get_hours was asked for
ArgDay == IF arg_when.date = NoDay THEN now.date ELSE arg_when.date

\* an explicit `when` on the day of self
SameDay == arg_when # NoneDT /\ arg_when.date = self.date
OtherDay == arg_when # NoneDT /\ arg_when.date # self.date

\* the tick t lies in some interval of self
InSomeInterval(t) ==
    \E i \in 1 .. Len(self.hours) : self.hours[i].open <= t /\ t < self.hours[i].close

Called(name) == op = name /\ pc \in {"loop", "done"}
Finished(name) == op = name /\ pc = "done"

---------------------------------------------------------------------------
(* C1 *)

\* C1: lab_is_open, time_to_open and time_to_close fail with a validation error
\* when the explicit `when` is on another date than self.date, and do not fail
\* with one when it is on self.date.
C1_ValidationRejectsOtherDay ==
    (/\ \/ Called("lab_is_open")
        \/ Called("time_to_open")
        \/ Called("time_to_close")
     /\ arg_when # NoneDT)
    => /\ OtherDay => result.kind = "ValueError"
       /\ SameDay => result.kind # "ValueError"

(* C2 *)

\* C2: half-open law: lab_is_open with a same-day `when` returns true exactly when
\* open <= time(when) < close for some interval of self.hours (so true at an
\* interval's open and false at its close).
C2_HalfOpenLaw ==
    (Finished("lab_is_open") /\ SameDay)
    => /\ result.kind = "ok"
       /\ result.bool = InSomeInterval(arg_when.time)

(* C3 *)

\* C3: get_hours(d) returns the label and the intervals of the first holiday, in
\* the file's order, whose inclusive range holds d (an empty list giving
\* closed_all_day whatever the weekday's template), and holiday None with the
\* weekday's template when no holiday holds d.
C3_FirstHolidayWins ==
    (Finished("get_hours") /\ DayName(ArgDay) \in DOMAIN raw_hours.hours)
    => /\ result.kind = "ok"
       /\ self.date = ArgDay
       /\ self.weekday = DayName(ArgDay)
       /\ self.hours = ExpectedHours(ArgDay)
       /\ Covering(ArgDay) = {} => self.holiday = "None"
       /\ Covering(ArgDay) # {} =>
            /\ self.holiday = raw_hours.holidays[FirstCovering(ArgDay)].reason
            /\ raw_hours.holidays[FirstCovering(ArgDay)].hours = <<>>
                  => closed_all_day(self)

\* a closed holiday listed before an overlapping open one, on an open weekday
C3_Witness ==
    /\ Finished("get_hours")
    /\ DayName(ArgDay) \in DOMAIN raw_hours.hours
    /\ Cardinality(Covering(ArgDay)) = 2
    /\ raw_hours.holidays[1].hours = <<>>
    /\ raw_hours.holidays[2].hours # <<>>
    /\ raw_hours.hours[DayName(ArgDay)] # <<>>
    /\ self.holiday = "Break"
    /\ closed_all_day(self)

(* C4 *)

\* C4: for a `when` accepted for self (same-day, or omitted), time_to_open
\* returns zero exactly when lab_is_open returns true for the same `when`, and a
\* strictly positive duration when the lab is closed.
C4_ZeroIffOpen ==
    (Finished("time_to_open") /\ (SameDay \/ arg_when = NoneDT))
    => LET o == lab_is_open(self, arg_when, now)
       IN  /\ result.kind = "ok"
           /\ (result.dur = 0) <=> (o.kind = "ok" /\ o.bool)
           /\ ~(o.kind = "ok" /\ o.bool) => result.dur > 0

(* C5 *)

\* C5: for a same-day `when`, when + time_to_close(when) is the close of the
\* interval holding `when`, on self.date; outside every interval time_to_close
\* is zero.
C5_LandsOnClose ==
    (Finished("time_to_close") /\ SameDay)
    => /\ result.kind = "ok"
       /\ \A i \in 1 .. Len(self.hours) :
            (self.hours[i].open <= arg_when.time /\ arg_when.time < self.hours[i].close)
            => arg_when.time + result.dur = self.hours[i].close
       /\ ~InSomeInterval(arg_when.time) => result.dur = 0

(* C6 *)

\* the dates after self.date, up to d, on which get_hours gives an interval or fails
StopsUpTo(d) ==
    {x \in (self.date + 1) .. d :
        \/ DayName(x) \notin DOMAIN raw_hours.hours
        \/ ExpectedRaw(x) # <<>>}

\* C6 as claimed: time_to_open returns, or fails with SearchExhausted, within a
\* bounded number of day-by-day lookahead steps (Horizon days): it is never found
\* looking further ahead than that.
C6_BoundedLookahead ==
    Called("time_to_open") => date - self.date <= Horizon

\* the loop has looked at no date past the first one that stops it
C6_LoopInvariant ==
    Called("time_to_open") =>
        /\ result.kind # "SearchExhausted"
        /\ date >= self.date
        /\ StopsUpTo(date - 1) = {}
        /\ (pc = "loop" /\ date > self.date /\ opens = <<>>) => StopsUpTo(date) = {}
        /\ (pc = "done" /\ date > self.date) => StopsUpTo(date) = {date}

\* each test of the loop either returns, when opens has an entry, or moves on to
\* the next date
C6_LoopProgress ==
    pc = "loop" =>
        /\ pc' \in {"loop", "done"}
        /\ opens # <<>> => pc' = "done" /\ date' = date
        /\ opens = <<>> => date' = date + 1

\* C6 as amended: time_to_open has no maximum lookahead and no SearchExhausted
\* error.  Its loop looks at one date after another, a step per date, and ends
\* exactly at the first date after self.date whose resolved hours are non-empty
\* or whose weekday the template lacks: it ends when such a date exists, and it
\* is still looking on every date before it, however far that date is.
C6_EndsAtFirstOpenDate == []C6_LoopInvariant /\ [][C6_LoopProgress]_vars

\* the loop went over closed days and returned the time to a later day's opening
C6_Witness ==
    /\ Finished("time_to_open")
    /\ date > self.date + 1
    /\ result.kind = "ok"
    /\ result.dur = minus(combine(date, ExpectedHours(date)[1].open), now)

(* C8 *)

\* C8 as claimed: with a weekday missing from the weekly template, get_hours(d)
\* fails for every date d and never returns an Hours value.
C8_IncompleteTemplateAlwaysFails ==
    (Finished("get_hours") /\ ~Complete) => result.kind # "ok"

\* C8 as amended: get_hours(d) fails, with the KeyError of the weekday lookup,
\* exactly when d falls on a weekday the template lacks, whether or not a holiday
\* holds d; on every other date it returns the Hours value of d.
C8_FailsOnMissingWeekdayOnly ==
    Finished("get_hours") =>
        /\ (result.kind = "KeyError") <=> (DayName(ArgDay) \notin DOMAIN raw_hours.hours)
        /\ (result.kind = "ok") <=> (DayName(ArgDay) \in DOMAIN raw_hours.hours)
        /\ result.kind = "ok" => self.date = ArgDay /\ self.hours = ExpectedHours(ArgDay)

\* a date on the missing weekday that a holiday holds: the lookup fails all the same
C8_Witness ==
    /\ Finished("get_hours")
    /\ DayName(ArgDay) \notin DOMAIN raw_hours.hours
    /\ Covering(ArgDay) # {}
    /\ result.kind = "KeyError"

(* C9 *)

\* the opening instants of self.date and the later dates, after the instant w
OpeningsAfter(w) ==
    {o \in UNION { {combine(d, ExpectedHours(d)[i].open) :
                        i \in 1 .. Len(ExpectedRaw(d))} :
                   d \in self.date .. MaxDate } :
        later(o, w)}
Earliest(S) == CHOOSE x \in S : \A y \in S : ~later(x, y)

\* C9: with the lab closed at a same-day `when`, time_to_open returns the time
\* from `when` to the earliest opening instant strictly after it.
C9_EarliestOpening ==
    (/\ Finished("time_to_open")
     /\ SameDay
     /\ Complete
     /\ ~InSomeInterval(arg_when.time)
     /\ OpeningsAfter(arg_when) # {})
    => /\ result.kind = "ok"
       /\ result.dur = minus(Earliest(OpeningsAfter(arg_when)), arg_when)

---------------------------------------------------------------------------
(* C7 *)

\* C7: the UserQuota get_quota returns has 0 <= daily <= semesterly, for pubstaff
\* (500, 500) and for every other user, with or without a row in storage,
\* semesterly = max(0, SEMESTERLY_QUOTA - semester_used) and
\* daily = max(0, min(semesterly, daily_quota(today) - today_used)).
C7_DailyWithinSemesterly ==
    Finished("get_quota") =>
        /\ 0 <= quota.daily
        /\ quota.daily <= quota.semesterly
        /\ quota.user = "pubstaff" => quota.daily = 500 /\ quota.semesterly = 500
        /\ quota.user # "pubstaff" =>
            LET used == IF quota.user \in DOMAIN printed THEN printed[quota.user]
                        ELSE [today |-> 0, semester |-> 0]
                cap == IF now.date % 7 \in {5, 6} THEN WEEKEND_QUOTA ELSE WEEKDAY_QUOTA
                sem == SEMESTERLY_QUOTA - used.semester
                day == cap - used.today
            IN  /\ quota.semesterly = (IF sem < 0 THEN 0 ELSE sem)
                /\ quota.daily = (IF day < 0 \/ sem < 0 THEN 0
                                  ELSE IF day < sem THEN day ELSE sem)

\* 3 pages used today and 98 this semester, on a weekday: 2 and 2 remain
C7_Witness ==
    /\ Finished("get_quota")
    /\ quota.user = "ckuehl"
    /\ "ckuehl" \in DOMAIN printed
    /\ printed["ckuehl"] = [today |-> 3, semester |-> 98]
    /\ now.date % 7 \notin {5, 6}
    /\ quota.daily = 2
    /\ quota.semesterly = 2

(* C10 *)

FieldSet(fields) == {fields[i] : i \in 1 .. Len(fields)}

\* each table holds one row per call, in call order, equal field for field
RowsFollowCalls ==
    /\ Len(jobs) = Len(job_calls)
    /\ \A i \in 1 .. Len(jobs) :
        /\ DOMAIN jobs[i] = FieldSet(Job_fields)
        /\ \A f \in FieldSet(Job_fields) : jobs[i][f] = job_calls[i][f]
    /\ Len(refunds) = Len(refund_calls)
    /\ \A i \in 1 .. Len(refunds) :
        /\ DOMAIN refunds[i] = FieldSet(Refund_fields)
        /\ \A f \in FieldSet(Refund_fields) : refunds[i][f] = refund_calls[i][f]

\* what a call leaves alone
CallFrame ==
    /\ (pc = "idle" /\ op' = "add_job") =>
        /\ Len(jobs') = Len(jobs) + 1
        /\ refunds' = refunds
    /\ (pc = "idle" /\ op' = "add_refund") =>
        /\ Len(refunds') = Len(refunds) + 1
        /\ jobs' = jobs
    /\ (pc = "idle" /\ op' = "get_quota") =>
        /\ jobs' = jobs
        /\ refunds' = refunds
        /\ printed' = printed

\* C10: the jobs table holds exactly one row per add_job call and the refunds
\* table one per add_refund call, each equal field for field to the record passed
\* (a repeated record gives a duplicate row); add_job leaves refunds unchanged,
\* add_refund leaves jobs unchanged, and get_quota changes neither table nor the
\* usage counters.
C10_OneRowPerCall == []RowsFollowCalls /\ [][CallFrame]_vars

\* the same job recorded twice, a refund recorded, and a quota read after them
C10_Witness ==
    /\ Finished("get_quota")
    /\ Len(jobs) = 2
    /\ jobs[1] = jobs[2]
    /\ Len(job_calls) = 2
    /\ job_calls[1] = job_calls[2]
    /\ Len(refunds) = 1
    /\ refunds[1].reason = refund_calls[1].reason

===========================================================================
